---- MODULE Spec2Model ----
(***************************************************************************)
(* PDF-Kompressor: the compression backends (Ghostscript / pikepdf), the   *)
(* auto-fallback selector, the output path resolver, the Ghostscript       *)
(* installer and the command-line front end, as state machines over a      *)
(* small file system.                                                      *)
(*                                                                         *)
(* Paths and file names are sequences of one-character strings, so that    *)
(* os.path.basename/dirname/splitext/join, str.lower and str.endswith are  *)
(* computed character by character as the library computes them.          *)
(* Input paths are absolute and normalised (os.path.abspath leaves them    *)
(* unchanged).                                                             *)
(*                                                                         *)
(* Environment failures are the ones the code handles or the taxonomy      *)
(* names: temporary-file creation, tool launch, timeout, non-zero exit,    *)
(* missing output, move, library import, library save, download.  The      *)
(* clean-up os.remove calls of the finally blocks act on files the         *)
(* process has just created and closed and are taken to succeed.           *)
(***************************************************************************)
EXTENDS Integers, Sequences, FiniteSets, TLC

VARIABLES
  fs,           \* regular files: path -> content ("" is an empty file)
  dirs,         \* existing directories (set of paths)
  gsInstalled,  \* Ghostscript executables present on the host
  job,          \* SpecBackend: the job the caller submits (input, output, quality)
  last,         \* the last call of a compressor: arguments, attempts, result
  history,      \* digests of the compressor calls made so far
  resolved,     \* SpecResolve: the last default_output_path_for call
  cli,          \* the command-line run: arguments, loop position, output
  inst,         \* the last ensure_ghostscript_installed call
  located,      \* SpecLocator: the last get_ghostscript_path call
  gui,          \* the window: file list, settings, widgets
  workers       \* the threads started by Start Compression, in order

vars == <<fs, dirs, gsInstalled, job, last, history, resolved, cli, inst, located, gui,
          workers>>

----------------------------------------------------------------------------
(* Bounds *)

MaxCalls == 2      \* compressor calls in one behaviour of SpecBackend
MaxSuffix == 2     \* most "-compressed (i).pdf" files present initially
MaxFiles == 7      \* most files on the host of SpecResolve
MaxInstalls == 3   \* ensure_ghostscript_installed calls in one behaviour

----------------------------------------------------------------------------
(* Strings as character sequences *)

None == "None"

Max(S) == CHOOSE x \in S : \A y \in S : y <= x

LowerChar(c) ==
  CASE c = "A" -> "a" [] c = "B" -> "b" [] c = "D" -> "d" [] c = "E" -> "e"
    [] c = "F" -> "f" [] c = "O" -> "o" [] c = "P" -> "p" [] c = "T" -> "t"
    [] c = "X" -> "x" [] c = "Y" -> "y"
    [] OTHER -> c

\* str.lower
Lower(s) == [i \in 1..Len(s) |-> LowerChar(s[i])]

\* str.endswith
EndsWith(s, suf) ==
  /\ Len(suf) <= Len(s)
  /\ SubSeq(s, Len(s) - Len(suf) + 1, Len(s)) = suf

\* str.rfind, 1-based; 0 when absent
RFind(s, c) ==
  LET I == {i \in 1..Len(s) : s[i] = c}
  IN IF I = {} THEN 0 ELSE Max(I)

Digits == <<"0", "1", "2", "3", "4", "5", "6", "7", "8", "9">>

RECURSIVE IntToStr(_)
\* str(i) for i >= 0
IntToStr(i) ==
  IF i < 10 THEN <<Digits[i + 1]>>
  ELSE IntToStr(i \div 10) \o <<Digits[(i % 10) + 1]>>

DotPdf == <<".", "p", "d", "f">>
CompressedSuffix == <<"-", "c", "o", "m", "p", "r", "e", "s", "s", "e", "d">>

----------------------------------------------------------------------------
(* os.path *)

\* os.path.basename
Basename(p) == SubSeq(p, RFind(p, "/") + 1, Len(p))

\* os.path.dirname
Dirname(p) ==
  LET head == SubSeq(p, 1, RFind(p, "/"))
  IN IF head # <<>> /\ \E i \in 1..Len(head) : head[i] # "/"
     THEN SubSeq(head, 1, Max({i \in 1..Len(head) : head[i] # "/"}))
     ELSE head

\* os.path.splitext: <<root, ext>>
Splitext(p) ==
  LET sep == RFind(p, "/")
      dot == RFind(p, ".")
  IN IF dot > sep /\ \E k \in (sep + 1)..(dot - 1) : p[k] # "."
     THEN <<SubSeq(p, 1, dot - 1), SubSeq(p, dot, Len(p))>>
     ELSE <<p, <<>>>>

\* os.path.join(a, b)
Join(a, b) ==
  IF b # <<>> /\ b[1] = "/" THEN b
  ELSE IF a = <<>> \/ a[Len(a)] = "/" THEN a \o b
  ELSE a \o <<"/">> \o b

\* os.path.exists / isfile / isdir on the modelled file system
Exists(fsys, dset, p) == p \in DOMAIN fsys \/ p \in dset
IsFile(fsys, p) == p \in DOMAIN fsys
IsDir(dset, p) == p \in dset

\* the file system with file p written / removed
WriteFile(fsys, p, content) ==
  LET f == fsys
  IN [q \in DOMAIN f \cup {p} |-> IF q = p THEN content ELSE f[q]]
RemoveFile(fsys, p) ==
  LET f == fsys
  IN [q \in DOMAIN f \ {p} |-> f[q]]

----------------------------------------------------------------------------
(* Quality presets *)

Qualities == {"extreme", "strong", "balanced", "high"}
Engines == {"auto", "ghostscript", "basic"}

\* the exception a dict lookup raises on a key it does not have
KeyError == "KeyError"

_map_quality_to_pdfsettings(quality) ==
  CASE quality = "extreme" -> "screen"
    [] quality = "strong" -> "screen"
    [] quality = "balanced" -> "ebook"
    [] quality = "high" -> "printer"
    [] OTHER -> KeyError

----------------------------------------------------------------------------
(* Tool locator: ghostscript_finder.py *)

\* potential_roots: <dir of the application>/ghostscript and
\* <dir of sys.executable>/ghostscript (two directories unless they coincide)
PotentialRoots == <<"bundled", "sibling">>

\* the names probed in each root, in the order of the inner loop
BundledNames == <<"gswin64c.exe", "gswin32c.exe">>

\* os.path.join(root, "bin", name), in the order the two nested loops probe them
GsBundled ==
  [i \in 1..(Len(PotentialRoots) * Len(BundledNames)) |->
     PotentialRoots[((i - 1) \div Len(BundledNames)) + 1] \o "/bin/"
       \o BundledNames[((i - 1) % Len(BundledNames)) + 1]]

\* the directories of the executable search path, in order
PathDirs == <<"PATH", "PATH2">>

\* the names _which_any is given
WhichNames == <<"gswin64c", "gswin64c.exe", "gswin32c", "gswin32c.exe", "gs">>

\* the file a name resolves to in a PATH directory (PATHEXT adds ".exe")
WhichFile(name) ==
  CASE name = "gswin64c" -> "gswin64c.exe"
    [] name = "gswin32c" -> "gswin32c.exe"
    [] OTHER -> name

RECURSIVE FirstPresentFrom(_, _, _)
\* the loop over seq from position i: the first entry that is present, or None
FirstPresentFrom(seq, tools, i) ==
  IF i > Len(seq) THEN None
  ELSE IF seq[i] \in tools THEN seq[i]
  ELSE FirstPresentFrom(seq, tools, i + 1)

\* the first entry of seq that is present, or None
FirstPresent(seq, tools) == FirstPresentFrom(seq, tools, 1)

\* for each name, the files shutil.which looks at, in the order of PATH
WhichPaths ==
  [name \in {WhichNames[j] : j \in 1..Len(WhichNames)} |->
     [i \in 1..Len(PathDirs) |-> PathDirs[i] \o "/" \o WhichFile(name)]]

\* shutil.which(name): the first PATH directory holding the file
which(name, tools) == FirstPresent(WhichPaths[name], tools)

RECURSIVE WhichAnyFrom(_, _, _)
\* the loop of _which_any from candidate i on
WhichAnyFrom(candidates, tools, i) ==
  IF i > Len(candidates) THEN None
  ELSE IF which(candidates[i], tools) # None THEN which(candidates[i], tools)
  ELSE WhichAnyFrom(candidates, tools, i + 1)

\* _which_any(candidates): the first name shutil.which finds
_which_any(candidates, tools) == WhichAnyFrom(candidates, tools, 1)

\* everything shutil.which can find for the names of _which_any
GsOnPath ==
  {PathDirs[i] \o "/" \o WhichFile(WhichNames[j]) :
     i \in 1..Len(PathDirs), j \in 1..Len(WhichNames)}

\* the installations the four glob patterns can match, listed in the
\* lexicographic order of their paths (" " < "/", "3" < "6"), each with the
\* characters of its os.path.basename
GsCommon ==
  <<[path |-> "C:/Program Files (x86)/gs/gs9/bin/gswin32c.exe",
     base |-> <<"g", "s", "w", "i", "n", "3", "2", "c", ".", "e", "x", "e">>],
    [path |-> "C:/Program Files (x86)/gs/gs9/bin/gswin64c.exe",
     base |-> <<"g", "s", "w", "i", "n", "6", "4", "c", ".", "e", "x", "e">>],
    [path |-> "C:/Program Files/gs/gs10/bin/gswin32c.exe",
     base |-> <<"g", "s", "w", "i", "n", "3", "2", "c", ".", "e", "x", "e">>],
    [path |-> "C:/Program Files/gs/gs10/bin/gswin64c.exe",
     base |-> <<"g", "s", "w", "i", "n", "6", "4", "c", ".", "e", "x", "e">>]>>

\* sub in s (substring test on character sequences)
Contains(s, sub) ==
  \E i \in 1..(Len(s) - Len(sub) + 1) : SubSeq(s, i, i + Len(sub) - 1) = sub

\* the sort key ("64c" not in os.path.basename(p), p) as a pair of numbers
CommonSortKey(i) ==
  <<IF Contains(GsCommon[i].base, <<"6", "4", "c">>) THEN 0 ELSE 1, i>>

KeyLess(a, b) == a[1] < b[1] \/ (a[1] = b[1] /\ a[2] < b[2])

\* candidates_sorted[0] if candidates_sorted else None
_probe_common_windows_paths(tools) ==
  LET I == {i \in 1..Len(GsCommon) : GsCommon[i].path \in tools}
  IN IF I = {} THEN None
     ELSE GsCommon[CHOOSE i \in I :
                     \A j \in I \ {i} : KeyLess(CommonSortKey(i), CommonSortKey(j))].path

GsUniverse ==
  {GsBundled[i] : i \in 1..Len(GsBundled)} \cup GsOnPath \cup
  {GsCommon[i].path : i \in 1..Len(GsCommon)}

get_ghostscript_path(tools) ==
  IF FirstPresent(GsBundled, tools) # None THEN FirstPresent(GsBundled, tools)
  ELSE IF _which_any(WhichNames, tools) # None THEN _which_any(WhichNames, tools)
  ELSE _probe_common_windows_paths(tools)

----------------------------------------------------------------------------
(* Results *)

NoPath == <<>>

\* CompressResult(ok, engine, input_path, output_path, message)
CompressResult(ok, engine, input_path, output_path, message) ==
  [kind |-> "return", ok |-> ok, engine |-> engine, input_path |-> input_path,
   output_path |-> output_path, message |-> message]

\* an exception leaving the backend instead of a result
Raised(engine, input_path, output_path, exc) ==
  [kind |-> "raise", ok |-> FALSE, engine |-> engine, input_path |-> input_path,
   output_path |-> output_path, message |-> exc]

\* one backend invocation, as the caller observes it
Attempt(engine, input_path, output_path, quality, tmp_out, res) ==
  [engine |-> engine, input |-> input_path, output |-> output_path,
   quality |-> quality, tmp |-> tmp_out, res |-> res]

\* what a compressor call leaves behind: file system, result, backend attempts
Outcome(fsys, dset, res, log) == [fs |-> fsys, dirs |-> dset, res |-> res, log |-> log]

----------------------------------------------------------------------------
(* Precise backend: compress_with_ghostscript *)

TmpDir == <<"/", "T">>
TmpPaths == {<<"/", "T", "/", "1", ".", "p", "d", "f">>}

\* what the environment does to one Ghostscript invocation
GsEnvs ==
  LET base == [mkstemp |-> TRUE, run |-> "exit", rc |-> 0, tmpAfter |-> "written",
               stderr |-> "", stdout |-> "", makedirs |-> TRUE, move |-> "ok"]
  IN {[base EXCEPT !.mkstemp = FALSE]}
     \cup {[base EXCEPT !.run = "launch_error", !.tmpAfter = "untouched"]}
     \cup {[base EXCEPT !.run = "timeout"]}
     \cup {[base EXCEPT !.rc = 1, !.stderr = e, !.stdout = o] :
             e \in {"", " ", "gs stderr"}, o \in {"", "gs stdout"}}
     \cup {[base EXCEPT !.tmpAfter = "deleted", !.stderr = e] : e \in {"", "gs stderr"}}
     \cup {[base EXCEPT !.tmpAfter = t, !.makedirs = m, !.move = v] :
             t \in {"untouched", "written"}, m \in BOOLEAN,
             v \in {"ok", "remove_fails", "move_fails"}}

\* str.strip on the captured streams
Strip(s) == IF s = " " THEN "" ELSE s

\* tempfile.mkstemp(suffix=".pdf"): the free names it may pick
MkstempChoices(fsys) == {t \in TmpPaths : t \notin DOMAIN fsys}

\* subprocess.run: the temporary file after the tool has run (or failed to start)
GsRunTool(fsys, tmp_out, input_path, env) ==
  IF env.run = "launch_error" \/ env.tmpAfter = "untouched" THEN fsys
  ELSE IF env.tmpAfter = "deleted" THEN RemoveFile(fsys, tmp_out)
  ELSE IF IsFile(fsys, input_path) THEN WriteFile(fsys, tmp_out, "GS")
  ELSE fsys

\* proc.returncode of a tool that ran: a missing input is a non-zero exit
GsReturnCode(fsys, input_path, env) ==
  IF IsFile(fsys, input_path) THEN env.rc ELSE 1

\* the condition under which the output is moved into place
GsProducedOutput(fsys, tmp_out, rc) == rc = 0 /\ Exists(fsys, {}, tmp_out)

\* os.makedirs(os.path.dirname(output_path) or ".", exist_ok=True), errors ignored
GsMakedirs(dset, output_path, env) ==
  IF env.makedirs /\ Dirname(output_path) # <<>>
  THEN dset \cup {Dirname(output_path)}
  ELSE dset

\* remove the old destination, then shutil.move(tmp_out, output_path)
GsMove(fsys, dset, tmp_out, output_path, env) ==
  IF Exists(fsys, dset, output_path)
     /\ (IsDir(dset, output_path) \/ env.move = "remove_fails")
  THEN [ok |-> FALSE, fs |-> fsys]
  ELSE LET fs1 == RemoveFile(fsys, output_path)
       IN IF env.move = "move_fails" \/ Dirname(output_path) \notin dset
          THEN [ok |-> FALSE, fs |-> fs1]
          ELSE LET fs2 == RemoveFile(fs1, tmp_out)
               IN [ok |-> TRUE, fs |-> WriteFile(fs2, output_path, fs1[tmp_out])]

\* the diagnostic of a tool run that produced nothing
GsMessage(env, rc) ==
  IF Strip(env.stderr) # "" THEN Strip(env.stderr)
  ELSE IF Strip(env.stdout) # "" THEN Strip(env.stdout)
  ELSE "Exited with code " \o ToString(rc)

\* (mutant) the finally block left out
GsCleanupMissing(fsys, tmp_out) == fsys

\* the finally block
GsCleanup(fsys, tmp_out) ==
  IF Exists(fsys, {}, tmp_out) THEN RemoveFile(fsys, tmp_out) ELSE fsys

\* the try block, after the temporary file exists
GsTry(fsys, dset, tmp_out, input_path, output_path, env) ==
  LET fs1 == GsRunTool(fsys, tmp_out, input_path, env)
      rc == GsReturnCode(fsys, input_path, env)
  IN IF env.run = "timeout"
     THEN [fs |-> fs1, dirs |-> dset,
           res |-> CompressResult(FALSE, "ghostscript", input_path, output_path,
                                  "Ghostscript timed out")]
     ELSE IF env.run = "launch_error"
     THEN [fs |-> fs1, dirs |-> dset,
           res |-> CompressResult(FALSE, "ghostscript", input_path, output_path,
                                  "Ghostscript error")]
     ELSE IF GsProducedOutput(fs1, tmp_out, rc)
     THEN LET dset1 == GsMakedirs(dset, output_path, env)
              mv == GsMove(fs1, dset1, tmp_out, output_path, env)
          IN [fs |-> mv.fs, dirs |-> dset1,
              res |-> IF mv.ok
                      THEN CompressResult(TRUE, "ghostscript", input_path, output_path,
                                          "Compressed with Ghostscript")
                      ELSE CompressResult(FALSE, "ghostscript", input_path, output_path,
                                          "Move failed")]
     ELSE [fs |-> fs1, dirs |-> dset,
           res |-> CompressResult(FALSE, "ghostscript", input_path, output_path,
                                  GsMessage(env, rc))]

\* the temporary file is created before the try block is entered
GsMkstemp(fsys, dset, tmp_out, input_path, output_path, env) ==
  IF ~env.mkstemp \/ tmp_out = NoPath
  THEN [fs |-> fsys, dirs |-> dset, tmp |-> NoPath,
        res |-> Raised("ghostscript", input_path, output_path, "OSError")]
  ELSE CHOOSE after \in
         {[fs |-> GsCleanup(t.fs, tmp_out), dirs |-> t.dirs, tmp |-> tmp_out,
           res |-> t.res] :
            t \in {GsTry(fs0, dset, tmp_out, input_path, output_path, env) :
                     fs0 \in {WriteFile(fsys, tmp_out, "")}}} : TRUE

\* compress_with_ghostscript(input_path, output_path, quality, gs_path);
\* tmp_out is the name mkstemp picks (NoPath when none is free)
compress_with_ghostscript(fsys, dset, tools, input_path, output_path, quality, gs_path_arg, tmp_out, env) ==
  LET gs_path == IF gs_path_arg = None THEN get_ghostscript_path(tools)
                 ELSE gs_path_arg
  IN IF gs_path = None \/ gs_path \notin tools
     THEN LET res == CompressResult(FALSE, "ghostscript", input_path, output_path,
                                    "Ghostscript not found")
          IN Outcome(fsys, dset, res,
                     <<Attempt("ghostscript", input_path, output_path, quality,
                               NoPath, res)>>)
     ELSE LET pdfsettings == _map_quality_to_pdfsettings(quality)
              exc == Raised("ghostscript", input_path, output_path, KeyError)
          IN IF pdfsettings = KeyError
             THEN Outcome(fsys, dset, exc,
                          <<Attempt("ghostscript", input_path, output_path, quality,
                                    NoPath, exc)>>)
             ELSE CHOOSE o \in
                    {Outcome(r.fs, r.dirs, r.res,
                             <<Attempt("ghostscript", input_path, output_path, quality,
                                       r.tmp, r.res)>>) :
                       r \in {GsMkstemp(fsys, dset, tmp_out, input_path, output_path,
                                        env)}} : TRUE

----------------------------------------------------------------------------
(* Basic backend: compress_with_pikepdf *)

\* what the environment does to one pikepdf attempt
PikeEnvs ==
  {[import |-> FALSE, save |-> "error"]}
  \cup {[import |-> TRUE, save |-> s] : s \in {"ok", "error", "silent"}}

\* pikepdf.open(input_path) and pdf.save(output_path): "ok" writes the file;
\* the library refuses a missing input, a missing target directory, a
\* directory as target and (without allow_overwriting_input) the input itself
PikeSave(fsys, dset, input_path, output_path, env) ==
  IF env.save = "ok" /\ IsFile(fsys, input_path) /\ Dirname(output_path) \in dset
     /\ ~IsDir(dset, output_path) /\ output_path # input_path
  THEN [raised |-> FALSE, fs |-> WriteFile(fsys, output_path, "PIKE")]
  ELSE IF env.save = "silent" /\ IsFile(fsys, input_path)
          /\ ~Exists(fsys, dset, output_path)
  THEN [raised |-> FALSE, fs |-> fsys]
  ELSE [raised |-> TRUE, fs |-> fsys]

compress_with_pikepdf(fsys, dset, input_path, output_path, quality, env) ==
  LET res0 == CompressResult(FALSE, "basic", input_path, output_path,
                             "pikepdf not available")
      s == PikeSave(fsys, dset, input_path, output_path, env)
      res1 == IF s.raised
              THEN CompressResult(FALSE, "basic", input_path, output_path,
                                  "pikepdf error")
              ELSE IF Exists(s.fs, dset, output_path)
              THEN CompressResult(TRUE, "basic", input_path, output_path,
                                  "Compressed with pikepdf")
              ELSE CompressResult(FALSE, "basic", input_path, output_path,
                                  "Unknown error during save")
  IN IF ~env.import
     THEN Outcome(fsys, dset, res0,
                  <<Attempt("basic", input_path, output_path, quality, NoPath, res0)>>)
     ELSE Outcome(s.fs, dset, res1,
                  <<Attempt("basic", input_path, output_path, quality, NoPath, res1)>>)

----------------------------------------------------------------------------
(* Selector: auto_compress, choose_engine *)

\* (mutant) the Precise backend is tried whether or not the tool was found
AutoTryPreciseAlways(gs) == TRUE

\* `if gs:` -- whether the Precise backend is tried at all
AutoTryPrecise(gs) == gs # None

\* (mutant) the Precise result is returned as it is, failed or not
AutoAfterPreciseNoFallback(r, input_path, output_path, quality, envPike) == r

\* after the Precise attempt r: return it when ok, else fall back to Basic
AutoAfterPrecise(r, input_path, output_path, quality, envPike) ==
  IF r.res.kind = "raise" \/ r.res.ok THEN r
  ELSE LET b == compress_with_pikepdf(r.fs, r.dirs, input_path, output_path,
                                      quality, envPike)
       IN Outcome(b.fs, b.dirs, b.res, r.log \o b.log)

auto_compress(fsys, dset, tools, input_path, output_path, quality, tmp_out, envGs, envPike) ==
  LET gs == get_ghostscript_path(tools)
  IN IF AutoTryPrecise(gs)
     THEN CHOOSE o \in
            {AutoAfterPrecise(r, input_path, output_path, quality, envPike) :
               r \in {compress_with_ghostscript(fsys, dset, tools, input_path,
                                                output_path, quality, gs, tmp_out,
                                                envGs)}} : TRUE
     ELSE compress_with_pikepdf(fsys, dset, input_path, output_path, quality, envPike)

\* (mutant) engine = "ghostscript" is given the auto selector, fallback included
choose_engine_ghostscript_falls_back(engine, fsys, dset, tools, input_path, output_path, quality, tmp_out, envGs, envPike) ==
  IF engine = "basic"
  THEN compress_with_pikepdf(fsys, dset, input_path, output_path, quality, envPike)
  ELSE auto_compress(fsys, dset, tools, input_path, output_path, quality,
                     tmp_out, envGs, envPike)

\* choose_engine(engine)(input_path, output_path, quality)
choose_engine(engine, fsys, dset, tools, input_path, output_path, quality, tmp_out, envGs, envPike) ==
  IF engine = "ghostscript"
  THEN compress_with_ghostscript(fsys, dset, tools, input_path, output_path,
                                 quality, None, tmp_out, envGs)
  ELSE IF engine = "basic"
  THEN compress_with_pikepdf(fsys, dset, input_path, output_path, quality, envPike)
  ELSE auto_compress(fsys, dset, tools, input_path, output_path, quality,
                     tmp_out, envGs, envPike)

----------------------------------------------------------------------------
(* Output path resolver *)

\* f"{root} ({i}){ext}"
UniqueCandidate(root, ext, i) == root \o <<" ", "(">> \o IntToStr(i) \o <<")">> \o ext

RECURSIVE UniqueLoop(_, _, _, _, _)
\* the while loop of ensure_unique_output_path, entered with counter i
UniqueLoop(fsys, dset, root, ext, i) ==
  IF ~Exists(fsys, dset, UniqueCandidate(root, ext, i))
  THEN UniqueCandidate(root, ext, i)
  ELSE UniqueLoop(fsys, dset, root, ext, i + 1)

\* (mutant) the base path is returned without looking at the disk
ensure_unique_output_path_unchecked(fsys, dset, base_path) == base_path

ensure_unique_output_path(fsys, dset, base_path) ==
  IF ~Exists(fsys, dset, base_path) THEN base_path
  ELSE UniqueLoop(fsys, dset, Splitext(base_path)[1], Splitext(base_path)[2], 1)

\* output_dir is NoPath for None (and for "", which `or` treats alike)
\* (name, stem, target_dir and out are each computed once and then used as values)
default_output_path_for(fsys, dset, src_path, output_dir) ==
  CHOOSE unique \in
    {ensure_unique_output_path(fsys, dset, out) :
       out \in {Join(target_dir, stem \o CompressedSuffix \o DotPdf) :
                  target_dir \in {IF output_dir # NoPath THEN output_dir
                                  ELSE Dirname(src_path)},
                  stem \in {Splitext(name)[1] : name \in {Basename(src_path)}}}} : TRUE

----------------------------------------------------------------------------
(* Tool installer: ghostscript_installer.py *)

InstallerTmpPaths ==
  {<<"/", "T", "/", "g", "s", "-", "s", "e", "t", "u", "p", "-", "1", ".", "e", "x", "e">>,
   <<"/", "T", "/", "g", "s", "-", "s", "e", "t", "u", "p", "-", "2", ".", "e", "x", "e">>}

\* what the environment does to one installation attempt
InstEnvs ==
  LET base == [arch |-> "w64", fetch |-> TRUE, download |-> "ok", silent |-> "ok",
               interactive |-> "ok"]
  IN {[base EXCEPT !.fetch = FALSE]}
     \cup {[base EXCEPT !.download = d] : d \in {"open_error", "mkstemp_error", "copy_error"}}
     \cup {[base EXCEPT !.arch = a] : a \in {"w64", "w32"}}
     \cup {[base EXCEPT !.silent = v] : v \in {"timeout", "launch_error"}}
     \cup {[base EXCEPT !.arch = a, !.silent = "nonzero", !.interactive = v] :
             a \in {"w64", "w32"}, v \in {"ok", "nonzero", "timeout"}}

\* _arch_tag
_arch_tag(env) == env.arch

\* _fetch_latest_download_url: the asset URL, or None
_fetch_latest_download_url(arch, env) ==
  IF env.fetch THEN "gs10040" \o arch \o ".exe" ELSE None

\* _download_to_temp: the returned path (NoPath for None), the file created on
\* the way, and the file system afterwards; path is the name mkstemp picks
_download_to_temp(fsys, path, env) ==
  IF env.download = "open_error" \/ env.download = "mkstemp_error" \/ path = NoPath
  THEN [ret |-> NoPath, created |-> NoPath, fs |-> fsys]
  ELSE IF env.download = "copy_error"
  THEN [ret |-> NoPath, created |-> path, fs |-> WriteFile(fsys, path, "")]
  ELSE [ret |-> path, created |-> path, fs |-> WriteFile(fsys, path, "SETUP")]

\* _run_installer(installer_path, silent=True): whether it reported success
_run_installer(env) ==
  IF env.silent = "ok" THEN TRUE
  ELSE IF env.silent = "nonzero" THEN env.interactive = "ok"
  ELSE FALSE

\* the executable a successful installer run leaves on the host
InstalledBy(env) ==
  IF env.arch = "w64" THEN "C:/Program Files/gs/gs10/bin/gswin64c.exe"
  ELSE "C:/Program Files/gs/gs10/bin/gswin32c.exe"

\* the finally block: os.remove(installer), errors ignored
InstallerCleanup(fsys, installer) ==
  IF IsFile(fsys, installer) THEN RemoveFile(fsys, installer) ELSE fsys

\* ensure_ghostscript_installed(auto_install); path is the name mkstemp would pick
ensure_ghostscript_installed(fsys, tools, auto_install, path, env) ==
  LET gs == get_ghostscript_path(tools)
      url == _fetch_latest_download_url(_arch_tag(env), env)
      d == _download_to_temp(fsys, path, env)
      ok == _run_installer(env)
      tools1 == IF ok THEN tools \cup {InstalledBy(env)} ELSE tools
  IN IF gs # None THEN [fs |-> fsys, tools |-> tools, created |-> NoPath, ret |-> gs]
     ELSE IF ~auto_install \/ url = None
     THEN [fs |-> fsys, tools |-> tools, created |-> NoPath, ret |-> None]
     ELSE IF d.ret = NoPath
     THEN [fs |-> d.fs, tools |-> tools, created |-> d.created, ret |-> None]
     ELSE [fs |-> InstallerCleanup(d.fs, d.ret), tools |-> tools1,
           created |-> d.created,
           ret |-> IF ok THEN get_ghostscript_path(tools1) ELSE None]

----------------------------------------------------------------------------
(* Paths of the modelled host *)

DirD == <<"/", "D">>
DirE == <<"/", "E">>
DirN == <<"/", "N">>
FileA == <<"/", "D", "/", "a", ".", "p", "d", "f">>
FileM == <<"/", "D", "/", "m", ".", "p", "d", "f">>
FileO == <<"/", "D", "/", "o", ".", "p", "d", "f">>
FileNO == <<"/", "N", "/", "o", ".", "p", "d", "f">>

FileB == <<"/", "D", "/", "B", ".", "P", "D", "F">>
FileXY == <<"/", "D", "/", "x", ".", "y", ".", "p", "d", "f">>
FileHidden == <<"/", "D", "/", ".", "p", "d", "f">>

\* a file system given as a set of <<path, content>> pairs
MkFs(pairs) ==
  [p \in {pr[1] : pr \in pairs} |-> (CHOOSE pr \in pairs : pr[1] = p)[2]]

----------------------------------------------------------------------------
(* Idle values of the state each specification leaves alone *)

NoResult == [kind |-> "none", ok |-> FALSE, engine |-> "none", input_path |-> NoPath,
             output_path |-> NoPath, message |-> ""]

LastNone == [fn |-> "none", input |-> NoPath, output |-> NoPath, quality |-> "balanced",
             tools |-> {}, pre |-> <<>>, res |-> NoResult, log |-> <<>>]

JobIdle == [input |-> NoPath, output |-> NoPath, quality |-> "balanced"]
ResolvedIdle == [pc |-> "idle", src |-> NoPath, dir |-> NoPath, out |-> NoPath]
CliIdle == [pc |-> "idle"]
InstIdle == [pc |-> "idle", n |-> 0, auto_install |-> FALSE, created |-> NoPath,
             ret |-> None]
LocatedIdle == [pc |-> "idle", ret |-> None]
GuiIdle == [pc |-> "idle"]

----------------------------------------------------------------------------
(* SpecBackend: a caller submitting one job to the three compressors, again *)
(* and again, on a host whose Ghostscript installation may change between   *)
(* the calls                                                                *)

BackendInputs == {FileA, FileM}
BackendOutputs == {FileO, FileNO, FileA}
BackendTools == {"PATH/gs"}

\* the temporary name mkstemp picks
TmpChoices(fsys) ==
  IF MkstempChoices(fsys) = {} THEN {NoPath} ELSE MkstempChoices(fsys)

\* the record of a finished call
CallRecord(fn, input_path, output_path, quality, o) ==
  [fn |-> fn, input |-> input_path, output |-> output_path, quality |-> quality,
   tools |-> gsInstalled, pre |-> fs, res |-> o.res, log |-> o.log]

CallDigest(fn, o) ==
  [fn |-> fn, located |-> get_ghostscript_path(gsInstalled),
   engines |-> [i \in 1..Len(o.log) |-> o.log[i].engine],
   kind |-> o.res.kind, ok |-> o.res.ok]

Returns(fn, input_path, output_path, quality, o) ==
  /\ fs' = o.fs
  /\ dirs' = o.dirs
  /\ last' = CallRecord(fn, input_path, output_path, quality, o)
  /\ history' = Append(history, CallDigest(fn, o))
  /\ UNCHANGED <<gsInstalled, job, resolved, cli, inst, located, gui, workers>>

InitBackend ==
  /\ fs \in {MkFs({<<FileA, "A">>}), MkFs({<<FileA, "A">>, <<FileO, "OLD">>})}
  /\ dirs = {DirD, TmpDir}
  /\ gsInstalled \in SUBSET BackendTools
  /\ job \in [input : BackendInputs, output : BackendOutputs, quality : Qualities]
  /\ last = LastNone
  /\ history = <<>>
  /\ resolved = ResolvedIdle
  /\ cli = CliIdle
  /\ inst = InstIdle
  /\ located = LocatedIdle
  /\ gui = GuiIdle
  /\ workers = <<>>

CallGhostscript ==
  /\ Len(history) < MaxCalls
  /\ \E tmp_out \in TmpChoices(fs), envGs \in GsEnvs, envPike \in PikeEnvs :
       LET o == choose_engine("ghostscript", fs, dirs, gsInstalled, job.input,
                              job.output, job.quality, tmp_out, envGs, envPike)
       IN Returns("ghostscript", job.input, job.output, job.quality, o)

CallPikepdf ==
  /\ Len(history) < MaxCalls
  /\ \E tmp_out \in TmpChoices(fs), envGs \in GsEnvs, envPike \in PikeEnvs :
       LET o == choose_engine("basic", fs, dirs, gsInstalled, job.input,
                              job.output, job.quality, tmp_out, envGs, envPike)
       IN Returns("basic", job.input, job.output, job.quality, o)

CallAuto ==
  /\ Len(history) < MaxCalls
  /\ \E tmp_out \in TmpChoices(fs), envGs \in GsEnvs, envPike \in PikeEnvs :
       LET o == choose_engine("auto", fs, dirs, gsInstalled, job.input,
                              job.output, job.quality, tmp_out, envGs, envPike)
       IN Returns("auto", job.input, job.output, job.quality, o)

\* Ghostscript is installed or removed between two calls
ToolInstalled ==
  /\ Len(history) < MaxCalls
  /\ \E t \in BackendTools \ gsInstalled : gsInstalled' = gsInstalled \cup {t}
  /\ UNCHANGED <<fs, dirs, job, last, history, resolved, cli, inst, located, gui, workers>>

ToolRemoved ==
  /\ Len(history) < MaxCalls
  /\ \E t \in gsInstalled : gsInstalled' = gsInstalled \ {t}
  /\ UNCHANGED <<fs, dirs, job, last, history, resolved, cli, inst, located, gui, workers>>

NextBackend ==
  \/ CallGhostscript
  \/ CallPikepdf
  \/ CallAuto
  \/ ToolInstalled
  \/ ToolRemoved

SpecBackend == InitBackend /\ [][NextBackend]_vars

----------------------------------------------------------------------------
(* Claims about the backends and the selector, checked under SpecBackend *)

\* the Precise attempt of the last call returned a failed result
PreciseFailed ==
  /\ Len(last.log) >= 1
  /\ last.log[1].engine = "ghostscript"
  /\ last.log[1].res.kind = "return"
  /\ ~last.log[1].res.ok

\* C1: in auto mode, when the tool is located and the Precise backend returns
\* a failed result, auto_compress returns exactly the result of one Basic
\* attempt on the same input, output and quality, never the Precise failure.
C1_AutoFallbackReturnsBasic ==
  (last.fn = "auto" /\ get_ghostscript_path(last.tools) # None /\ PreciseFailed)
    => /\ Len(last.log) = 2
       /\ last.log[2].engine = "basic"
       /\ last.log[2].input = last.input
       /\ last.log[2].output = last.output
       /\ last.log[2].quality = last.quality
       /\ last.res = last.log[2].res
       /\ last.res.engine = "basic"
       /\ last.res # last.log[1].res

\* C1 witness: the tool was located, Precise failed on the move, and the Basic
\* attempt failed too; its failure is what auto_compress returned.
C1_Witness ==
  /\ last.fn = "auto"
  /\ get_ghostscript_path(last.tools) # None
  /\ PreciseFailed
  /\ last.log[1].res.message = "Move failed"
  /\ Len(last.log) = 2
  /\ last.res.kind = "return"
  /\ ~last.res.ok
  /\ last.res.message = "pikepdf error"

\* C2: every result with ok = TRUE names an output path at which a non-empty
\* file exists (also when the tool exits 0 without writing to the temporary
\* file).
C2_OkImpliesNonEmptyOutput ==
  (last.fn # "none" /\ last.res.kind = "return" /\ last.res.ok)
    => /\ last.res.output_path \in DOMAIN fs
       /\ fs[last.res.output_path] # ""

\* C7: whatever the environment does, compress_with_ghostscript and
\* compress_with_pikepdf return a CompressResult (ok = FALSE with a message on
\* failure); no exception propagates to the caller.
C7_BackendsNeverRaise ==
  last.fn \in {"ghostscript", "basic"}
    => /\ last.res.kind = "return"
       /\ (~last.res.ok => last.res.message # "")

\* C8: in auto mode, whenever the tool cannot be located at the time of the
\* call, the Precise backend is not invoked and exactly one Basic attempt is
\* made, whose result is returned; the location is recomputed on each call of
\* a sequence, so a tool installed between two jobs is used by the second.
C8_AutoLocatesOnEachCall ==
  /\ \A i \in 1..Len(history) :
       history[i].fn = "auto"
         => IF history[i].located = None
            THEN history[i].engines = <<"basic">>
            ELSE history[i].engines[1] = "ghostscript"
  /\ (last.fn = "auto" /\ get_ghostscript_path(last.tools) = None)
       => /\ Len(last.log) = 1
          /\ last.log[1].engine = "basic"
          /\ last.res = last.log[1].res

\* C8 witness: two auto calls; the tool was absent at the first (Basic only)
\* and installed before the second, which tried Precise first.
C8_Witness ==
  /\ Len(history) = 2
  /\ history[1].fn = "auto" /\ history[1].located = None
  /\ history[1].engines = <<"basic">>
  /\ history[2].fn = "auto" /\ history[2].located # None
  /\ history[2].engines[1] = "ghostscript"

C11_OneAttemptPerBackend ==
  \A i \in 1..Len(history) :
    /\ history[i].engines \in {<<"ghostscript">>, <<"basic">>,
                               <<"ghostscript", "basic">>}
    /\ history[i].fn = "ghostscript" => history[i].engines = <<"ghostscript">>
    /\ history[i].fn = "basic" => history[i].engines = <<"basic">>

\* C11 witness: a call with engine = ghostscript that failed (Precise only),
\* followed by an auto call in which Precise failed and Basic was tried after.
C11_Witness ==
  /\ Len(history) = 2
  /\ history[1].fn = "ghostscript"
  /\ history[1].kind = "return" /\ ~history[1].ok
  /\ history[1].engines = <<"ghostscript">>
  /\ history[2].fn = "auto"
  /\ history[2].engines = <<"ghostscript", "basic">>

\* C16: whenever compress_with_ghostscript returns ok = FALSE, a file that
\* existed at output_path before the call still exists there with its previous
\* content (also when the move of the temporary file failed).
C16_FailedPreciseKeepsDestination ==
  (last.fn = "ghostscript" /\ last.res.kind = "return" /\ ~last.res.ok
     /\ last.output \in DOMAIN last.pre)
    => /\ last.output \in DOMAIN fs
       /\ fs[last.output] = last.pre[last.output]

----------------------------------------------------------------------------
(* SpecResolve: default_output_path_for applied to sources and output       *)
(* directories, on a disk holding any set of earlier outputs; the caller    *)
(* may write the resolved output before it resolves again                   *)

ResolveSources == {FileA, FileB, FileXY, FileHidden}
ResolveDirs == {NoPath, DirE}

\* the literal name "<dir>/a-compressed.pdf" (i = 0) or "<dir>/a-compressed (i).pdf"
EarlierOutput(dir, i) ==
  dir \o <<"/", "a">> \o CompressedSuffix
      \o (IF i = 0 THEN <<>> ELSE <<" ", "(">> \o IntToStr(i) \o <<")">>) \o DotPdf

EarlierOutputs == {EarlierOutput(d, i) : d \in {DirD, DirE}, i \in 0..MaxSuffix}

InitResolve ==
  /\ \E S \in SUBSET EarlierOutputs :
       fs = [p \in ResolveSources \cup S |-> IF p \in S THEN "OLD" ELSE "SRC"]
  /\ dirs = {DirD, DirE, TmpDir}
  /\ gsInstalled = {}
  /\ job = JobIdle
  /\ last = LastNone
  /\ history = <<>>
  /\ resolved = ResolvedIdle
  /\ cli = CliIdle
  /\ inst = InstIdle
  /\ located = LocatedIdle
  /\ gui = GuiIdle
  /\ workers = <<>>

Resolve ==
  /\ \E src_path \in ResolveSources, output_dir \in ResolveDirs :
       resolved' = [pc |-> "done", src |-> src_path, dir |-> output_dir,
                    out |-> default_output_path_for(fs, dirs, src_path, output_dir)]
  /\ UNCHANGED <<fs, dirs, gsInstalled, job, last, history, cli, inst, located, gui, workers>>

\* the caller writes the output it resolved
WriteResolved ==
  /\ resolved.pc = "done"
  /\ Cardinality(DOMAIN fs) < MaxFiles
  /\ fs' = WriteFile(fs, resolved.out, "NEW")
  /\ resolved' = [resolved EXCEPT !.pc = "written"]
  /\ UNCHANGED <<dirs, gsInstalled, job, last, history, cli, inst, located, gui, workers>>

NextResolve ==
  \/ Resolve
  \/ WriteResolved

SpecResolve == InitResolve /\ [][NextResolve]_vars

\* the stem of each source, written out
StemOf(src_path) ==
  CASE src_path = FileA -> <<"a">>
    [] src_path = FileB -> <<"B">>
    [] src_path = FileXY -> <<"x", ".", "y">>
    [] src_path = FileHidden -> <<".", "p", "d", "f">>

\* the directory of each source, written out
DirOf(src_path) == DirD

\* "<target>/<stem>-compressed.pdf" (i = 0) and "<target>/<stem>-compressed (i).pdf"
Expected(target, stem, i) ==
  target \o <<"/">> \o stem \o CompressedSuffix
         \o (IF i = 0 THEN <<>> ELSE <<" ", "(">> \o IntToStr(i) \o <<")">>) \o DotPdf

\* C6: default_output_path_for(src, dir) returns <target>/<stem>-compressed.pdf
\* when that path does not exist (target = dir if given, else the directory of
\* src), otherwise <target>/<stem>-compressed (i).pdf for the smallest i >= 1
\* whose path does not exist; the returned path does not exist on return.
C6_ResolverPicksFirstFreeName ==
  resolved.pc = "done"
    => LET target == IF resolved.dir # NoPath THEN resolved.dir ELSE DirOf(resolved.src)
           stem == StemOf(resolved.src)
       IN /\ ~Exists(fs, dirs, resolved.out)
          /\ \E i \in 0..Cardinality(DOMAIN fs) :
               /\ resolved.out = Expected(target, stem, i)
               /\ \A j \in 0..(i - 1) : Exists(fs, dirs, Expected(target, stem, j))

\* C6 witness: the base name and " (1)" are taken in the output directory, and
\* the resolver returned " (2)".
C6_Witness ==
  /\ resolved.pc = "done"
  /\ resolved.src = FileA
  /\ resolved.dir = DirE
  /\ EarlierOutput(DirE, 0) \in DOMAIN fs
  /\ EarlierOutput(DirE, 1) \in DOMAIN fs
  /\ resolved.out = <<"/", "E", "/", "a", "-", "c", "o", "m", "p", "r", "e", "s", "s",
                      "e", "d", " ", "(", "2", ")", ".", "p", "d", "f">>

----------------------------------------------------------------------------
(* SpecInstaller: ensure_ghostscript_installed called on a host from which  *)
(* the user may remove Ghostscript again                                    *)

InstallerTmpChoices(fsys) ==
  IF {t \in InstallerTmpPaths : t \notin DOMAIN fsys} = {} THEN {NoPath}
  ELSE {t \in InstallerTmpPaths : t \notin DOMAIN fsys}

InitInstaller ==
  /\ fs = MkFs({<<FileA, "A">>})
  /\ dirs = {DirD, TmpDir}
  /\ gsInstalled \in SUBSET {"PATH/gs", "bundled/bin/gswin32c.exe"}
  /\ job = JobIdle
  /\ last = LastNone
  /\ history = <<>>
  /\ resolved = ResolvedIdle
  /\ cli = CliIdle
  /\ inst = InstIdle
  /\ located = LocatedIdle
  /\ gui = GuiIdle
  /\ workers = <<>>

EnsureInstalled ==
  /\ inst.n < MaxInstalls
  /\ \E auto_install \in BOOLEAN, path \in InstallerTmpChoices(fs), env \in InstEnvs :
       LET r == ensure_ghostscript_installed(fs, gsInstalled, auto_install, path, env)
       IN /\ fs' = r.fs
          /\ gsInstalled' = r.tools
          /\ inst' = [pc |-> "returned", n |-> inst.n + 1, auto_install |-> auto_install,
                      created |-> r.created, ret |-> r.ret]
  /\ UNCHANGED <<dirs, job, last, history, resolved, cli, located, gui, workers>>

\* the user removes a Ghostscript executable between two calls
GsUninstalled ==
  /\ inst.n < MaxInstalls
  /\ \E t \in gsInstalled : gsInstalled' = gsInstalled \ {t}
  /\ UNCHANGED <<fs, dirs, job, last, history, resolved, cli, inst, located, gui, workers>>

NextInstaller ==
  \/ EnsureInstalled
  \/ GsUninstalled

SpecInstaller == InitInstaller /\ [][NextInstaller]_vars

\* C10: whenever ensure_ghostscript_installed(auto_install=True) has created a
\* temporary installer file during the download step, that file no longer
\* exists when the function returns (download completed or failed part-way,
\* installer succeeded, failed or timed out).
C10_InstallerFileRemoved ==
  (inst.pc = "returned" /\ inst.auto_install /\ inst.created # NoPath)
    => ~Exists(fs, dirs, inst.created)

----------------------------------------------------------------------------
(* Command-line front end: _run_cli *)

DirS == <<"/", "D", "/", "s", ".", "p", "d", "f">>
FileTxt == <<"/", "D", "/", "n", ".", "t", "x", "t">>
FileAOld == <<"/", "E", "/", "a", "-", "c", "o", "m", "p", "r", "e", "s", "s", "e", "d",
              ".", "p", "d", "f">>

Absent == "<absent>"

\* the content of the file at p, or Absent
ContentAt(fsys, p) == IF p \in DOMAIN fsys THEN fsys[p] ELSE Absent

\* os.listdir(d): the names of the entries of directory d
Listdir(fsys, dset, d) ==
  {Basename(p) : p \in {q \in DOMAIN fsys \cup dset : Dirname(q) = d}}

\* the list comprehension: the regular files of in_path whose lowered name ends in ".pdf"
FolderPdfs(fsys, dset, in_path) ==
  {Join(in_path, f) : f \in {g \in Listdir(fsys, dset, in_path) :
                               /\ EndsWith(Lower(g), DotPdf)
                               /\ IsFile(fsys, Join(in_path, g))}}

\* the orders in which os.listdir may return the set S
Orders(S) ==
  {q \in [1..Cardinality(S) -> S] : \A i, j \in 1..Cardinality(S) : q[i] = q[j] => i = j}

\* out_arg and os.path.splitext(out_arg)[1].lower() == ".pdf"
OutArgIsPdf(out_arg) == out_arg # NoPath /\ Lower(Splitext(out_arg)[2]) = DotPdf

\* compress_one: the output path handed to the compressor
CliOutPath(fsys, dset, out_arg, src, out_dir) ==
  IF OutArgIsPdf(out_arg) THEN out_arg
  ELSE default_output_path_for(fsys, dset, src, out_dir)

\* if out_dir and not os.path.exists(out_dir): os.makedirs(out_dir, exist_ok=True)
CliMakedirs(fsys, dset, out_dir) ==
  IF out_dir # NoPath /\ ~Exists(fsys, dset, out_dir) THEN dset \cup {out_dir} ELSE dset

\* the optional installation attempt before the run (its exceptions are ignored)
CliAutoInstall(fsys, tools, c, path, env) ==
  IF c.auto_install /\ c.engine \in {"ghostscript", "auto"}
  THEN ensure_ghostscript_installed(fsys, tools, TRUE, path, env)
  ELSE [fs |-> fsys, tools |-> tools, created |-> NoPath, ret |-> None]

\* the exit status of the interpreter when _run_cli raises
UncaughtExceptionStatus == 1

\* the run after argument parsing, up to the first job or the early return
CliStart ==
  /\ cli.pc = "start"
  /\ \E path \in InstallerTmpChoices(fs),
        env \in (IF cli.auto_install /\ cli.engine \in {"ghostscript", "auto"}
                    /\ get_ghostscript_path(gsInstalled) = None
                 THEN InstEnvs ELSE {CHOOSE e \in InstEnvs : TRUE}) :
       LET r == CliAutoInstall(fs, gsInstalled, cli, path, env)
           folder == IsDir(dirs, cli.in_path)
           out_dir == IF folder THEN cli.out_arg
                      ELSE IF OutArgIsPdf(cli.out_arg) THEN NoPath ELSE cli.out_arg
           pdfSet == FolderPdfs(r.fs, dirs, cli.in_path)
           singleOk == EndsWith(Lower(cli.in_path), DotPdf)
                       /\ Exists(r.fs, dirs, cli.in_path)
       IN /\ fs' = r.fs
          /\ gsInstalled' = r.tools
          /\ IF folder
             THEN /\ dirs' = CliMakedirs(r.fs, dirs, out_dir)
                  /\ IF pdfSet = {}
                     THEN cli' = [cli EXCEPT !.pc = "done", !.mode = "folder",
                                    !.out_dir = out_dir, !.exit = 1,
                                    !.lines = <<[kind |-> "no_pdfs"]>>]
                     ELSE \E order \in Orders(pdfSet) :
                            cli' = [cli EXCEPT !.pc = "loop", !.mode = "folder",
                                      !.out_dir = out_dir, !.pdfs = order]
             ELSE IF ~singleOk
             THEN /\ dirs' = dirs
                  /\ cli' = [cli EXCEPT !.pc = "done", !.mode = "single", !.exit = 1,
                               !.lines = <<[kind |-> "bad_input"]>>]
             ELSE /\ dirs' = CliMakedirs(r.fs, dirs, out_dir)
                  /\ cli' = [cli EXCEPT !.pc = "loop", !.mode = "single",
                               !.out_dir = out_dir, !.pdfs = <<cli.in_path>>]
  /\ UNCHANGED <<job, last, history, resolved, inst, located, gui, workers>>

\* the lines printed for one finished job (the text of res.message is not kept)
CliLines(c, i, src, out_path, res) ==
  IF c.mode = "folder"
  THEN <<[kind |-> "status", i |-> i, n |-> Len(c.pdfs),
          status |-> IF res.ok THEN "OK" ELSE "FAIL",
          name |-> Basename(src), out |-> out_path]>>
       \o (IF res.ok THEN <<>> ELSE <<[kind |-> "msg"]>>)
  ELSE IF res.ok
  THEN <<[kind |-> "single_ok", name |-> Basename(src), out |-> out_path]>>
  ELSE <<[kind |-> "single_fail"]>>

\* one job: compress_one on the next file, and the lines printed for it; in
\* single-file mode the run returns right after it
CliStep ==
  /\ cli.pc = "loop"
  /\ cli.i < Len(cli.pdfs)
  /\ \E tmp_out \in TmpChoices(fs),
        envGs \in (IF cli.engine = "basic" THEN {CHOOSE e \in GsEnvs : TRUE} ELSE GsEnvs),
        envPike \in (IF cli.engine = "ghostscript" THEN {CHOOSE e \in PikeEnvs : TRUE}
                     ELSE PikeEnvs) :
     \E src \in {cli.pdfs[cli.i + 1]} :
     \E out_path \in {CliOutPath(fs, dirs, cli.out_arg, src, cli.out_dir)} :
     \E o \in {choose_engine(cli.engine, fs, dirs, gsInstalled, src, out_path,
                              cli.quality, tmp_out, envGs, envPike)} :
       LET jobRec == [src |-> src, out |-> out_path, before |-> ContentAt(fs, out_path),
                      after |-> ContentAt(o.fs, out_path), kind |-> o.res.kind,
                      ok |-> o.res.ok, engines |-> [k \in 1..Len(o.log) |-> o.log[k].engine]]
       IN /\ fs' = o.fs
          /\ dirs' = o.dirs
          /\ IF o.res.kind = "raise"
             THEN cli' = [cli EXCEPT !.pc = "crashed", !.i = cli.i + 1,
                            !.jobs = Append(cli.jobs, jobRec),
                            !.exit = UncaughtExceptionStatus]
             ELSE cli' = [cli EXCEPT
                            !.pc = IF cli.mode = "single" THEN "done" ELSE "loop",
                            !.i = cli.i + 1,
                            !.ok_count = IF o.res.ok THEN cli.ok_count + 1 ELSE cli.ok_count,
                            !.jobs = Append(cli.jobs, jobRec),
                            !.lines = cli.lines \o CliLines(cli, cli.i + 1, src, out_path, o.res),
                            !.exit = IF cli.mode = "single"
                                     THEN (IF o.res.ok THEN 0 ELSE 2)
                                     ELSE cli.exit]
  /\ UNCHANGED <<gsInstalled, job, last, history, resolved, inst, located, gui, workers>>

\* folder mode after the loop: the summary line and the return
CliFinish ==
  /\ cli.pc = "loop"
  /\ cli.mode = "folder"
  /\ cli.i = Len(cli.pdfs)
  /\ cli' = [cli EXCEPT !.pc = "done",
               !.lines = cli.lines \o <<[kind |-> "summary", ok |-> cli.ok_count,
                                         n |-> Len(cli.pdfs)]>>,
               !.exit = IF cli.ok_count = Len(cli.pdfs) THEN 0 ELSE 2]
  /\ UNCHANGED <<fs, dirs, gsInstalled, job, last, history, resolved, inst, located, gui, workers>>

----------------------------------------------------------------------------
(* SpecCli: one non-interactive run of the command line *)

CliInputs == {DirD, DirE, FileA, FileM, FileTxt}
CliOutputs == {NoPath, DirE, DirN, FileA, FileO}
CliQualities == {"balanced", "extreme"}

\* the disk before the run: two PDFs, a text file and a directory named like a
\* PDF in /D; an earlier output of a.pdf in /E
CliFs0 == MkFs({<<FileA, "A">>, <<FileB, "B">>, <<FileTxt, "N">>, <<FileAOld, "OLD">>})
CliDirs0 == {DirD, DirE, DirS, TmpDir}

InitCli ==
  /\ fs = CliFs0
  /\ dirs = CliDirs0
  /\ gsInstalled \in SUBSET {"PATH/gs"}
  /\ job = JobIdle
  /\ last = LastNone
  /\ history = <<>>
  /\ resolved = ResolvedIdle
  /\ inst = InstIdle
  /\ located = LocatedIdle
  /\ gui = GuiIdle
  /\ workers = <<>>
  /\ \E in_path \in CliInputs, out_arg \in CliOutputs, engine \in Engines,
        quality \in CliQualities, auto_install \in BOOLEAN :
       cli = [pc |-> "start", in_path |-> in_path, out_arg |-> out_arg,
              engine |-> engine, quality |-> quality, auto_install |-> auto_install,
              mode |-> "none", out_dir |-> NoPath,
              pdfs |-> <<>>, i |-> 0, ok_count |-> 0, lines |-> <<>>, jobs |-> <<>>,
              exit |-> -1]

NextCli ==
  \/ CliStart
  \/ CliStep
  \/ CliFinish

SpecCli == InitCli /\ [][NextCli]_vars

----------------------------------------------------------------------------
(* Claims about the command line, checked under SpecCli *)

CliEnded == cli.pc \in {"done", "crashed"}

\* the regular files of the input folder whose names end in .pdf, whatever the case
RequestedPdfs ==
  {p \in DOMAIN CliFs0 : Dirname(p) = cli.in_path /\ EndsWith(Lower(Basename(p)), DotPdf)}

\* the input is an existing .pdf file or a folder holding at least one PDF
ValidCliInput ==
  \/ cli.in_path \in DOMAIN CliFs0 /\ EndsWith(Lower(cli.in_path), DotPdf)
  \/ cli.in_path \in CliDirs0 /\ RequestedPdfs # {}

\* C3: for every job the CLI starts (--input a file or a folder, --output
\* absent, a directory or a path ending in .pdf), the output path handed to
\* the backend differs from the job's input path, and no file that existed at
\* that path before the job is overwritten or deleted.
C3_OutputNeverClobbers ==
  \A k \in 1..Len(cli.jobs) :
    /\ cli.jobs[k].out # cli.jobs[k].src
    /\ (cli.jobs[k].before # Absent => cli.jobs[k].after = cli.jobs[k].before)

\* C4: the exit code of a non-interactive run is 0 exactly when every
\* requested file was compressed with ok = TRUE, 2 exactly when at least one
\* requested file returned a failed result, and 1 exactly when no valid input
\* was found; in the exit-code-1 case no backend is invoked.
C4_ExitCodes ==
  CliEnded
    => /\ (cli.exit = 0) <=>
            /\ ValidCliInput
            /\ \A k \in 1..Len(cli.jobs) : cli.jobs[k].kind = "return" /\ cli.jobs[k].ok
       /\ (cli.exit = 2) <=>
            \E k \in 1..Len(cli.jobs) : cli.jobs[k].kind = "return" /\ ~cli.jobs[k].ok
       /\ (cli.exit = 1) <=> ~ValidCliInput
       /\ (cli.exit = 1) => cli.jobs = <<>>

\* C5: in folder mode over a folder with N regular files named *.pdf (any
\* case) and other entries, the compressor is invoked exactly once for each of
\* the N PDFs and for no other entry, one status line is printed per PDF, and
\* a failed result for one file never keeps the remaining files from being
\* processed.
C5_FolderProcessesEachPdfOnce ==
  (CliEnded /\ cli.in_path \in CliDirs0)
    => /\ Len(cli.jobs) = Cardinality(RequestedPdfs)
       /\ {cli.jobs[k].src : k \in 1..Len(cli.jobs)} = RequestedPdfs
       /\ Cardinality({k \in 1..Len(cli.lines) : cli.lines[k].kind = "status"})
            = Cardinality(RequestedPdfs)

----------------------------------------------------------------------------
(* SpecLocator: get_ghostscript_path on hosts with every combination of     *)
(* installed executables                                                    *)

InitLocator ==
  /\ fs = MkFs({})
  /\ dirs = {}
  /\ gsInstalled \in SUBSET GsUniverse
  /\ job = JobIdle
  /\ last = LastNone
  /\ history = <<>>
  /\ resolved = ResolvedIdle
  /\ cli = CliIdle
  /\ inst = InstIdle
  /\ located = LocatedIdle
  /\ gui = GuiIdle
  /\ workers = <<>>

Locate ==
  /\ located.pc = "idle"
  /\ located' = [pc |-> "returned", ret |-> get_ghostscript_path(gsInstalled)]
  /\ UNCHANGED <<fs, dirs, gsInstalled, job, last, history, resolved, cli, inst, gui, workers>>

NextLocator == Locate

SpecLocator == InitLocator /\ [][NextLocator]_vars

----------------------------------------------------------------------------
(* Claims about the locator, checked under SpecLocator *)

\* the three search stages, as sets of paths
StageBundled == {r \o "/bin/" \o n : r \in {"bundled", "sibling"},
                                     n \in {"gswin64c.exe", "gswin32c.exe"}}
StagePath == {d \o "/" \o n : d \in {"PATH", "PATH2"},
                              n \in {"gswin64c.exe", "gswin32c.exe", "gs"}}
StageCommon == {d \o "/bin/" \o n :
                  d \in {"C:/Program Files (x86)/gs/gs9", "C:/Program Files/gs/gs10"},
                  n \in {"gswin64c.exe", "gswin32c.exe"}}
Stages == <<StageBundled, StagePath, StageCommon>>

\* paths carrying the 64-bit / the 32-bit name marker
Named64 == {t \in StageBundled \cup StagePath \cup StageCommon :
              \E d \in {"bundled/bin/", "sibling/bin/", "PATH/", "PATH2/",
                         "C:/Program Files (x86)/gs/gs9/bin/",
                         "C:/Program Files/gs/gs10/bin/"} : t = d \o "gswin64c.exe"}
Named32 == {t \in StageBundled \cup StagePath \cup StageCommon :
              \E d \in {"bundled/bin/", "sibling/bin/", "PATH/", "PATH2/",
                         "C:/Program Files (x86)/gs/gs9/bin/",
                         "C:/Program Files/gs/gs10/bin/"} : t = d \o "gswin32c.exe"}

\* C12: get_ghostscript_path searches the bundled directory, then PATH, then
\* the well-known install directories and returns the first match; whenever a
\* 64-bit and a 32-bit console executable are both present within the same
\* search stage the 64-bit-named path is returned; when nothing is found it
\* returns absence.
C12_LocatorOrderAnd64BitPreference ==
  located.pc = "returned" =>
    /\ (located.ret = None) <=> (gsInstalled = {})
    /\ located.ret # None => located.ret \in gsInstalled
    /\ \A k \in 1..3 :
         (Stages[k] \cap gsInstalled # {}
            /\ \A h \in 1..(k - 1) : Stages[h] \cap gsInstalled = {})
           => /\ located.ret \in Stages[k]
              /\ (Stages[k] \cap gsInstalled \cap Named64 # {}
                    /\ Stages[k] \cap gsInstalled \cap Named32 # {})
                   => located.ret \in Named64

----------------------------------------------------------------------------
(* Graphical front end: PDFCompressorApp.  The handlers run one at a time   *)
(* on the main thread; each Start Compression spawns a thread running       *)
(* _run_compression, whose steps interleave with the handlers.  The log     *)
(* text and the progress bar are write-only outputs and are not kept; the   *)
(* listbox always holds the same paths as self.files.                       *)

MaxGuiRuns == 2    \* Start Compression clicks that start a worker
MaxListed == 2     \* most paths in the file list

SeqToSet(q) == {q[i] : i \in 1..Len(q)}

\* engine_combo["values"], quality_combo["values"]
EngineComboValues == <<"auto", "ghostscript", "basic">>
QualityComboValues == <<"extreme", "strong", "balanced", "high">>

\* a text typed into the quality combobox when its state lets the user type
TypedQualities == {"max"}

\* the entries of the two lists the modelled user picks
GuiEnginePicks == {"auto", "ghostscript", "basic"}
GuiQualityPicks == {"balanced"}

\* what the user can put into a ttk.Combobox: nothing when disabled, one of
\* its values when readonly, any text when normal
ComboChoices(state, values, typed) ==
  IF state = "disabled" THEN {}
  ELSE IF state = "readonly" THEN SeqToSet(values)
  ELSE SeqToSet(values) \cup typed

\* (mutant) _set_running leaves the Start button alone
_set_running_without_start_btn(g, running) ==
  LET state == IF running THEN "disabled" ELSE "normal"
  IN [g EXCEPT !.engine_combo = state, !.quality_combo = state,
               !.output_entry = state]

\* _set_running(running): tk.DISABLED or tk.NORMAL on the four widgets
_set_running(g, running) ==
  LET state == IF running THEN "disabled" ELSE "normal"
  IN [g EXCEPT !.engine_combo = state, !.quality_combo = state,
               !.output_entry = state, !.start_btn = state]

\* the loop of on_add_files / on_add_folder: append the PDFs not yet listed
RECURSIVE AddPaths(_, _)
AddPaths(files, paths) ==
  IF paths = <<>> THEN files
  ELSE LET p == Head(paths)
       IN AddPaths(IF EndsWith(Lower(p), DotPdf) /\ p \notin SeqToSet(files)
                   THEN Append(files, p) ELSE files,
                   Tail(paths))

\* the loop of on_remove_selected: the list without the selected rows
RECURSIVE RemoveRows(_, _, _)
RemoveRows(files, sel, i) ==
  IF i > Len(files) THEN <<>>
  ELSE (IF i \in sel THEN <<>> ELSE <<files[i]>>) \o RemoveRows(files, sel, i + 1)

\* a thread just started by on_start, and one that has returned
WorkerStarted == [pc |-> "started", it |-> 0, engine |-> "", quality |-> "",
                  src |-> NoPath, out |-> NoPath, engines |-> <<>>, kind |-> "none"]
WorkerExited(kind) == [WorkerStarted EXCEPT !.pc = "exited", !.kind = kind]

\* the "Completed" dialog of _on_done is open (it is modal)
ModalOpen == \E i \in 1..Len(workers) : workers[i].pc = "done_dialog"

\* the main thread is free to run a handler
HandlerMayRun == gui.pc = "open" /\ ~ModalOpen

\* what the file dialogs offer
GuiPickable == {FileA, FileTxt}
GuiFolders == {DirD}
GuiOutputDirs == {DirE}

\* the backend environments of the GUI runs: success, a failed result, an exception
GuiGsEnvs ==
  {e \in GsEnvs : \/ ~e.mkstemp
                  \/ e.run = "exit" /\ e.rc = 0 /\ e.tmpAfter = "written" /\ e.makedirs
                     /\ e.move = "ok"}
GuiPikeEnvs == {e \in PikeEnvs : e.import /\ e.save \in {"ok", "error"}}

on_add_files ==
  /\ HandlerMayRun
  /\ \E S \in SUBSET GuiPickable : \E paths \in Orders(S) :
       /\ Len(AddPaths(gui.files, paths)) <= MaxListed
       /\ gui' = [gui EXCEPT !.files = AddPaths(gui.files, paths)]
  /\ UNCHANGED <<fs, dirs, gsInstalled, job, last, history, resolved, cli, inst, located,
               workers>>

on_add_folder ==
  /\ HandlerMayRun
  /\ \E folder \in GuiFolders : \E pdfs \in {FolderPdfs(fs, dirs, folder)} :
       /\ Cardinality(pdfs \cup SeqToSet(gui.files)) <= MaxListed
       /\ \E paths \in Orders(pdfs) :
            gui' = [gui EXCEPT !.files = AddPaths(gui.files, paths)]
  /\ UNCHANGED <<fs, dirs, gsInstalled, job, last, history, resolved, cli, inst, located,
               workers>>

on_remove_selected ==
  /\ HandlerMayRun
  /\ \E sel \in SUBSET (1..Len(gui.files)) :
       gui' = [gui EXCEPT !.files = RemoveRows(gui.files, sel, 1)]
  /\ UNCHANGED <<fs, dirs, gsInstalled, job, last, history, resolved, cli, inst, located,
               workers>>

on_clear ==
  /\ HandlerMayRun
  /\ gui' = [gui EXCEPT !.files = <<>>]
  /\ UNCHANGED <<fs, dirs, gsInstalled, job, last, history, resolved, cli, inst, located,
               workers>>

\* Browse: askdirectory returns "" when cancelled
on_choose_output_dir ==
  /\ HandlerMayRun
  /\ \E d \in GuiOutputDirs \cup {NoPath} :
       gui' = IF d # NoPath THEN [gui EXCEPT !.output_dir = d] ELSE gui
  /\ UNCHANGED <<fs, dirs, gsInstalled, job, last, history, resolved, cli, inst, located,
               workers>>

\* the user picks (or types) an engine or a quality
SelectEngine ==
  /\ HandlerMayRun
  /\ \E v \in ComboChoices(gui.engine_combo, EngineComboValues, {}) :
       /\ v \in GuiEnginePicks
       /\ gui' = [gui EXCEPT !.engine_var = v]
  /\ UNCHANGED <<fs, dirs, gsInstalled, job, last, history, resolved, cli, inst, located,
               workers>>

SelectQuality ==
  /\ HandlerMayRun
  /\ \E v \in ComboChoices(gui.quality_combo, QualityComboValues, TypedQualities) :
       /\ v \in GuiQualityPicks \cup TypedQualities
       /\ gui' = [gui EXCEPT !.quality_var = v]
  /\ UNCHANGED <<fs, dirs, gsInstalled, job, last, history, resolved, cli, inst, located,
               workers>>

\* Start Compression (a disabled button does not run its command); the
\* warning and the hint are message boxes and change nothing
on_start ==
  /\ HandlerMayRun
  /\ gui.start_btn # "disabled"
  /\ Len(workers) < MaxGuiRuns
  /\ IF gui.files = <<>>
     THEN UNCHANGED <<gui, workers>>
     ELSE /\ gui' = _set_running(gui, TRUE)
          /\ workers' = Append(workers, WorkerStarted)
  /\ UNCHANGED <<fs, dirs, gsInstalled, job, last, history, resolved, cli, inst, located>>

\* _run_compression, first statements: read the two variables, pick the compressor
RunCompressionBegin(i) ==
  /\ workers[i].pc = "started"
  /\ UNCHANGED <<fs, dirs, gsInstalled, job, last, history, resolved, cli, inst, located,
                 gui>>
  /\ workers' = [workers EXCEPT ![i] =
                   [@ EXCEPT !.pc = "loop", !.engine = gui.engine_var,
                             !.quality = gui.quality_var]]

\* the for statement asks the list iterator for the next element of
\* self.files; when there is one, the output path is resolved with the
\* output directory of that moment; when there is none, "All done." and the
\* Completed dialog
RunCompressionNext(i) ==
  /\ workers[i].pc = "loop"
  /\ UNCHANGED <<fs, dirs, gsInstalled, job, last, history, resolved, cli, inst, located,
                 gui>>
  /\ \E w \in {workers[i]} :
       IF w.it < Len(gui.files)
       THEN \E src \in {gui.files[w.it + 1]} :
            \E out \in {default_output_path_for(fs, dirs, src, gui.output_dir)} :
              workers' = [workers EXCEPT ![i] =
                            [w EXCEPT !.pc = "job", !.it = w.it + 1, !.src = src,
                                      !.out = out]]
       ELSE workers' = [workers EXCEPT ![i] =
                          [w EXCEPT !.pc = "done_dialog", !.engines = <<>>]]

\* (mutant) an exception of the compressor ends the thread at once
AfterJobPcNoFinally(kind) == IF kind = "raise" THEN "exited" ELSE "loop"

\* where the worker goes after compressor(src, out, quality): back to the for
\* statement, or to the finally block when it raised
AfterJobPc(kind) == IF kind = "raise" THEN "finally" ELSE "loop"

\* res = compressor(src, out, quality) and the lines logged for it
RunCompressionJob(i) ==
  /\ workers[i].pc = "job"
  /\ UNCHANGED <<gsInstalled, job, last, history, resolved, cli, inst, located, gui>>
  /\ \E tmp_out \in TmpChoices(fs), envGs \in GuiGsEnvs, envPike \in GuiPikeEnvs :
     \E w \in {workers[i]} :
     \E o \in {choose_engine(w.engine, fs, dirs, gsInstalled, w.src, w.out,
                              w.quality, tmp_out, envGs, envPike)} :
       /\ fs' = o.fs
       /\ dirs' = o.dirs
       /\ workers' = [workers EXCEPT ![i] =
                        [w EXCEPT !.pc = AfterJobPc(o.res.kind),
                                  !.src = NoPath, !.out = NoPath,
                                  !.engines = [k \in 1..Len(o.log) |-> o.log[k].engine],
                                  !.kind = o.res.kind]]

\* the user closes the Completed dialog: _on_done returns
OnDoneDismissed(i) ==
  /\ workers[i].pc = "done_dialog"
  /\ UNCHANGED <<fs, dirs, gsInstalled, job, last, history, resolved, cli, inst, located,
                 gui>>
  /\ workers' = [workers EXCEPT ![i] = [@ EXCEPT !.pc = "finally"]]

\* the finally block: _set_running(False); the thread returns
RunCompressionFinally(i) ==
  /\ workers[i].pc = "finally"
  /\ UNCHANGED <<fs, dirs, gsInstalled, job, last, history, resolved, cli, inst, located>>
  /\ gui' = _set_running(gui, FALSE)
  /\ workers' = [workers EXCEPT ![i] = WorkerExited(workers[i].kind)]

----------------------------------------------------------------------------
(* SpecGui: one session of the window; SpecGuiLive adds the scheduling of   *)
(* the worker thread and a user who closes the Completed dialog             *)

InitGui ==
  /\ fs = CliFs0
  /\ dirs = CliDirs0
  /\ gsInstalled \in SUBSET {"PATH/gs"}
  /\ job = JobIdle
  /\ last = LastNone
  /\ history = <<>>
  /\ resolved = ResolvedIdle
  /\ cli = CliIdle
  /\ inst = InstIdle
  /\ located = LocatedIdle
  /\ gui = [pc |-> "open", files |-> <<>>, output_dir |-> NoPath,
            ghostscript_path |-> get_ghostscript_path(gsInstalled),
            engine_var |-> "auto", quality_var |-> "balanced",
            engine_combo |-> "readonly", quality_combo |-> "readonly",
            output_entry |-> "normal", start_btn |-> "normal"]
  /\ workers = <<>>

NextHandler ==
  \/ on_add_files
  \/ on_add_folder
  \/ on_remove_selected
  \/ on_clear
  \/ on_choose_output_dir
  \/ SelectEngine
  \/ SelectQuality
  \/ on_start

NextWorker ==
  \E i \in 1..Len(workers) :
    \/ RunCompressionBegin(i)
    \/ RunCompressionNext(i)
    \/ RunCompressionJob(i)
    \/ OnDoneDismissed(i)
    \/ RunCompressionFinally(i)

NextGui == NextHandler \/ NextWorker

SpecGui == InitGui /\ [][NextGui]_vars

SpecGuiLive == InitGui /\ [][NextGui]_vars /\ WF_vars(NextWorker)

----------------------------------------------------------------------------
(* Claims about the window, checked under SpecGui and SpecGuiLive *)

\* the worker threads that have not returned, and those inside a job
WorkersRunning == {i \in 1..Len(workers) : workers[i].pc # "exited"}
JobsExecuting == {i \in 1..Len(workers) : workers[i].pc = "job"}

\* a worker is between its first request to the list iterator and the end of
\* its for loop
WorkerIterating ==
  \E i \in 1..Len(workers) : workers[i].pc \in {"loop", "job"}

ControlsDisabled ==
  /\ gui.start_btn = "disabled" /\ gui.engine_combo = "disabled"
  /\ gui.quality_combo = "disabled" /\ gui.output_entry = "disabled"

ControlsEnabled ==
  /\ gui.start_btn # "disabled" /\ gui.engine_combo # "disabled"
  /\ gui.quality_combo # "disabled" /\ gui.output_entry # "disabled"

\* C13: the quality-to-profile mapping is defined on exactly the four presets
\* (extreme and strong give screen, balanced gives ebook, high gives printer),
\* and no quality outside the four presets reaches compress_with_ghostscript
\* from the window.
C13_OnlyPresetsReachTheMapping ==
  /\ _map_quality_to_pdfsettings("extreme") = "screen"
  /\ _map_quality_to_pdfsettings("strong") = "screen"
  /\ _map_quality_to_pdfsettings("balanced") = "ebook"
  /\ _map_quality_to_pdfsettings("high") = "printer"
  /\ Qualities = {"extreme", "strong", "balanced", "high"}
  /\ gui.pc = "open" =>
       \A i \in 1..Len(workers) :
         "ghostscript" \in SeqToSet(workers[i].engines)
           => workers[i].quality \in Qualities

\* C14: under every interleaving of the user's actions with the worker
\* thread, at most one worker is running and at most one compression job is
\* executing at any time.
C14_AtMostOneWorker ==
  gui.pc = "open" =>
    /\ Cardinality(WorkersRunning) <= 1
    /\ Cardinality(JobsExecuting) <= 1

\* C14 witness: a second run is inside a job after the first worker has
\* returned, with the Start button disabled again.
C14_Witness ==
  /\ gui.pc = "open"
  /\ Len(workers) = 2
  /\ workers[1].pc = "exited"
  /\ workers[2].pc = "job"
  /\ gui.start_btn = "disabled"

\* C15: while the worker loop is iterating over the selected-file list, no
\* step changes that list or the output-directory setting.
C15_ListAndOutputDirFrozenDuringRun ==
  [][(gui.pc = "open" /\ WorkerIterating)
       => (gui'.files = gui.files /\ gui'.output_dir = gui.output_dir)]_vars

============================================================================
